---- MODULE Spec2Model ----
(***************************************************************************)
(* Model of src/main.py: the interactive news assistant.                   *)
(*                                                                         *)
(* Text is modelled by TLA+ strings, handled character by character with   *)
(* Len, SubSeq and \o, so that lower(), replace(), strip(), startswith()   *)
(* and the substring tests of the router are computed as Python computes   *)
(* them.  A prompt built by an f-string from a fixed template is the pair  *)
(* of the template's name and the interpolated text.                       *)
(*                                                                         *)
(* TLC stores the characters of a string as single bytes, so the module    *)
(* is written in ASCII: each accented letter of the program's text stands  *)
(* as one ASCII character that the program's text does not use,            *)
(*     a-acute @   A-acute &   i-acute |   I-acute !   o-acute *           *)
(*     a-tilde ~   u-acute +   c-cedilla $   e-circumflex ^                *)
(* which keeps every length, and lower() maps & to @ and ! to |.           *)
(***************************************************************************)
EXTENDS Integers, Sequences, FiniteSets, TLC

VARIABLES
    pc,              \* position of main / process_request
    env,             \* os.environ: which credentials are set
    token_counter,   \* the TokenCounterCallback instance, NoCounter before line 157
    user_input,      \* main's user_input of the current turn
    intent,          \* branch of process_request taken in the current turn
    text_to_analyze, \* process_request's local, sentiment branch
    results,         \* process_request's local, news branch
    summary,         \* process_request's local, news branch
    response,        \* value returned by process_request
    calls,           \* collaborator calls made in the current turn, in order
    completions,     \* every response on_llm_end has observed, in order
    stdout_last,     \* what the last print wrote
    usage_reports,   \* the blocks print_usage has printed, in order
    loop_entered     \* whether the while loop of line 165 was reached

vars == <<pc, env, token_counter, user_input, intent, text_to_analyze, results,
          summary, response, calls, completions, stdout_last, usage_reports,
          loop_entered>>

(***************************************************************************)
(* Bounds of the model.                                                    *)
(***************************************************************************)
MaxWords == 2        \* an input line is at most this many vocabulary words
MaxCompletions == 2  \* a turn starts only while fewer completions were observed

(***************************************************************************)
(* Program constants.                                                      *)
(***************************************************************************)
MinTextLen == 20
SepWidth == 50

(***************************************************************************)
(* Python str operations.                                                  *)
(***************************************************************************)
Char(s, i) == SubSeq(s, i, i)

Upper == "ABCDEFGHIJKLMNOPQRSTUVWXYZ&!"
Lowered == "abcdefghijklmnopqrstuvwxyz@|"

LowerChar(c) ==
    IF \E i \in 1..Len(Upper) : Char(Upper, i) = c
    THEN Char(Lowered, CHOOSE i \in 1..Len(Upper) : Char(Upper, i) = c)
    ELSE c

RECURSIVE lower(_)
lower(s) == IF s = "" THEN "" ELSE LowerChar(Char(s, 1)) \o lower(Tail(s))

startswith(s, p) == Len(p) <= Len(s) /\ SubSeq(s, 1, Len(p)) = p

\* Python's "sub in s"
Contains(s, sub) ==
    \E i \in 1..(Len(s) - Len(sub) + 1) : SubSeq(s, i, i + Len(sub) - 1) = sub

\* s.replace(old, ""): leftmost, non-overlapping occurrences removed
RECURSIVE remove(_, _)
remove(s, old) ==
    IF Len(s) < Len(old) THEN s
    ELSE IF startswith(s, old) THEN remove(SubSeq(s, Len(old) + 1, Len(s)), old)
    ELSE Char(s, 1) \o remove(Tail(s), old)

Whitespace == {" ", "\t", "\n", "\r"}

RECURSIVE lstrip(_)
lstrip(s) ==
    IF s # "" /\ Char(s, 1) \in Whitespace THEN lstrip(Tail(s)) ELSE s

RECURSIVE rstrip(_)
rstrip(s) ==
    IF s # "" /\ Char(s, Len(s)) \in Whitespace
    THEN rstrip(SubSeq(s, 1, Len(s) - 1)) ELSE s

strip(s) == rstrip(lstrip(s))

RECURSIVE Repeat(_, _)
Repeat(s, n) == IF n = 0 THEN "" ELSE s \o Repeat(s, n - 1)

\* Python dict: .get(key, default) and truthiness
Get(d, k, default) == IF k \in DOMAIN d THEN d[k] ELSE default
Truthy(d) == DOMAIN d # {}
EmptyDict == [k \in {} |-> 0]

(***************************************************************************)
(* Inputs: the lines the console can deliver, built from a vocabulary that *)
(* holds routing keywords in both cases, exit keywords, text that is       *)
(* stripped, and a text of MinTextLen - 1 characters.                      *)
(***************************************************************************)
Filler == "O PIB caiu 3% hoje."

Vocabulary ==
    {"Analise", "analisa", "sentimentos", "Busque", "not|cias", "NOT!CIAS",
     "do texto", "SAIR", "quit", " ", ":", Filler}

RECURSIVE Join(_)
Join(ws) == IF ws = <<>> THEN "" ELSE Head(ws) \o Join(Tail(ws))

Inputs == { Join(ws) : ws \in UNION { [1..n -> Vocabulary] : n \in 0..MaxWords } }

(***************************************************************************)
(* The collaborators' possible answers.                                    *)
(***************************************************************************)
\* search.invoke(query): a list of result dicts, or an exception
SearchOutcomes ==
    { [ok |-> FALSE, ret |-> <<>>, err |-> "503 Service Unavailable"],
      [ok |-> TRUE, ret |-> <<>>, err |-> ""],
      [ok |-> TRUE, err |-> "",
       ret |-> << [title |-> "ERRO no PIB", content |-> "revisado", url |-> "http://b"],
                  [content |-> "sem fonte"] >>] }

\* llm.invoke(prompt, callbacks): a message with its llm_output, or an exception
LlmOutcomes ==
    { [ok |-> FALSE, content |-> "", llm_output |-> EmptyDict, err |-> "429 Too Many Requests"],
      [ok |-> TRUE, err |-> "", content |-> "- PIB sobe 2%",
       llm_output |-> [token_usage |->
           [prompt_tokens |-> 2, completion_tokens |-> 1, total_tokens |-> 3]]],
      [ok |-> TRUE, err |-> "", content |-> " Sentimento: NEGATIVO\n",
       llm_output |-> EmptyDict],
      [ok |-> TRUE, err |-> "", content |-> "- PIB sobe 2%",
       llm_output |-> [model |-> "ministral-8b-latest"]],
      [ok |-> TRUE, err |-> "", content |-> " Sentimento: NEGATIVO\n",
       llm_output |-> [token_usage |-> [total_tokens |-> 1]]] }

(***************************************************************************)
(* TokenCounterCallback, lines 10-29.                                      *)
(***************************************************************************)
NoCounter == EmptyDict

TokenCounterInit == [prompt_tokens |-> 0, completion_tokens |-> 0, total_tokens |-> 0]

\* on_llm_end with prompt_tokens fed from the total_tokens entry
on_llm_end_wrong_key(self, llm_output) ==
    IF Truthy(llm_output)
    THEN LET token_usage == Get(llm_output, "token_usage", EmptyDict)
         IN  [prompt_tokens |-> self.prompt_tokens + Get(token_usage, "total_tokens", 0),
              completion_tokens |->
                  self.completion_tokens + Get(token_usage, "completion_tokens", 0),
              total_tokens |-> self.total_tokens + Get(token_usage, "total_tokens", 0)]
    ELSE self

\* on_llm_end with = in place of +=
on_llm_end_assigns(self, llm_output) ==
    IF Truthy(llm_output)
    THEN LET token_usage == Get(llm_output, "token_usage", EmptyDict)
         IN  [prompt_tokens |-> Get(token_usage, "prompt_tokens", 0),
              completion_tokens |-> Get(token_usage, "completion_tokens", 0),
              total_tokens |-> Get(token_usage, "total_tokens", 0)]
    ELSE self

on_llm_end(self, llm_output) ==
    IF Truthy(llm_output)
    THEN LET token_usage == Get(llm_output, "token_usage", EmptyDict)
         IN  [prompt_tokens |-> self.prompt_tokens + Get(token_usage, "prompt_tokens", 0),
              completion_tokens |->
                  self.completion_tokens + Get(token_usage, "completion_tokens", 0),
              total_tokens |-> self.total_tokens + Get(token_usage, "total_tokens", 0)]
    ELSE self

UsageBlock(p, c, t) ==
    "\n" \o Repeat("=", SepWidth) \o "\nTOKENS UTILIZADOS:"
    \o "\n  Prompt tokens: " \o ToString(p)
    \o "\n  Completion tokens: " \o ToString(c)
    \o "\n  Total tokens: " \o ToString(t)
    \o "\n" \o Repeat("=", SepWidth) \o "\n\n"

print_usage(self) ==
    UsageBlock(self.prompt_tokens, self.completion_tokens, self.total_tokens)

(***************************************************************************)
(* search_news, lines 31-55: the string it returns.                        *)
(***************************************************************************)
NoKeyMsg == "ERRO: TAVILY_API_KEY n~o encontrada no arquivo .env"
NoNewsMsg == "Nenhuma not|cia encontrada para este t*pico."

FormatResult(i, result) ==
    ToString(i) \o ". " \o Get(result, "title", "Sem t|tulo")
    \o "\n   " \o Get(result, "content", "Sem conte+do")
    \o "\n   Fonte: " \o Get(result, "url", "")

RECURSIVE FormatResults(_, _)
FormatResults(res, i) ==
    IF i > Len(res) THEN ""
    ELSE FormatResult(i, res[i])
         \o (IF i < Len(res) THEN "\n\n" ELSE "")
         \o FormatResults(res, i + 1)

search_news(out) ==
    IF ~out.ok THEN "ERRO ao buscar not|cias: " \o out.err
    ELSE IF out.ret = <<>> THEN NoNewsMsg
    ELSE FormatResults(out.ret, 1)

(***************************************************************************)
(* process_request, lines 76-138: the pure parts.                          *)
(***************************************************************************)
IsSentiment(user_lower) ==
    \/ Contains(user_lower, "analise")
    \/ Contains(user_lower, "sentimento")
    \/ Contains(user_lower, "analisa")

IsNews(user_lower) ==
    \/ Contains(user_lower, "busque")
    \/ Contains(user_lower, "buscar")
    \/ Contains(user_lower, "not|cias")
    \/ Contains(user_lower, "noticias")
    \/ Contains(user_lower, "procure")

\* route with the two tests in the other order
route_news_first(input) ==
    LET user_lower == lower(input)
    IN  IF IsNews(user_lower) THEN "NewsSearch"
        ELSE IF IsSentiment(user_lower) THEN "SentimentAnalysis"
        ELSE "GeneralQuery"

route(input) ==
    LET user_lower == lower(input)
    IN  IF IsSentiment(user_lower) THEN "SentimentAnalysis"
        ELSE IF IsNews(user_lower) THEN "NewsSearch"
        ELSE "GeneralQuery"

StripWords ==
    <<"analise", "sentimento", "analisa", "o sentimento", "da not|cia",
      "desta not|cia", "do texto">>

RECURSIVE StripTriggers(_, _)
StripTriggers(text, i) ==
    IF i > Len(StripWords) THEN text
    ELSE StripTriggers(remove(text, StripWords[i]), i + 1)

TextToAnalyze(input) == strip(remove(StripTriggers(input, 1), ":"))

\* the length test with <= in place of <
TooShortInclusive(text) == Len(text) <= MinTextLen

\* line 85
TooShort(text) == Len(text) < MinTextLen

AskForTextMsg ==
    "Por favor, forne$a o texto da not|cia para an@lise. Exemplo: 'Analise o sentimento: [texto da not|cia]'"

NewsResponse(summ, sentiment) ==
    summ \o "\n\n" \o Repeat("=", SepWidth) \o "\nAN&LISE DE SENTIMENTO\n"
    \o Repeat("=", SepWidth) \o "\n" \o sentiment

Prompt(template, text) == [template |-> template, text |-> text]

\* the second prompt built from the raw results
NewsSentimentPromptFromResults(res, summ) == Prompt("news_sentiment", res)

\* lines 109-118: the second prompt of the news branch
NewsSentimentPrompt(res, summ) == Prompt("news_sentiment", summ)

\* the handler's message without the ERRO prefix
ProcessingErrorUnprefixed(e) == "Falha ao processar resultados: " \o e

\* line 125
ProcessingError(e) == "ERRO ao processar resultados: " \o e

\* the credential test left out
KeyMissingNever(e) == FALSE

\* search_news, lines 33-34: the credential is read and tested at each call
KeyMissing(e) == ~e.TAVILY_API_KEY

ExitKeywords == {"sair", "exit", "quit"}

(***************************************************************************)
(* State machine.                                                          *)
(***************************************************************************)
NoPrint == [kind |-> "none", text |-> ""]

Init ==
    /\ pc = "start"
    /\ env \in [MISTRAL_API_KEY : BOOLEAN, TAVILY_API_KEY : BOOLEAN]
    /\ token_counter = NoCounter
    /\ user_input = ""
    /\ intent = "none"
    /\ text_to_analyze = ""
    /\ results = ""
    /\ summary = ""
    /\ response = ""
    /\ calls = <<>>
    /\ completions = <<>>
    /\ stdout_last = NoPrint
    /\ usage_reports = <<>>
    /\ loop_entered = FALSE

TurnLocals == <<user_input, intent, text_to_analyze, results, summary, response, calls>>

ResetTurn ==
    /\ user_input' = ""
    /\ intent' = "none"
    /\ text_to_analyze' = ""
    /\ results' = ""
    /\ summary' = ""
    /\ response' = ""
    /\ calls' = <<>>

\* the handler of lines 183-185
InitErrorPrint(e) ==
    [kind |-> "init_error", text |-> "\nERRO ao inicializar o agente: " \o e \o "\n"]

\* main, lines 145-163: the credential check and the construction of the counter
Start ==
    /\ pc = "start"
    /\ IF ~env.MISTRAL_API_KEY
       THEN /\ stdout_last' =
                  InitErrorPrint("ERRO: MISTRAL_API_KEY n~o encontrada no arquivo .env")
            /\ pc' = "terminated"
            /\ UNCHANGED <<token_counter, loop_entered>>
       ELSE /\ token_counter' = TokenCounterInit
            /\ stdout_last' = [kind |-> "banner",
                               text |-> "  - 'Analise o sentimento: [texto da not|cia]'\n"]
            /\ loop_entered' = TRUE
            /\ pc' = "input"
    /\ UNCHANGED <<env, completions, usage_reports>>
    /\ UNCHANGED TurnLocals

\* input("Voc^: ") writes its prompt before it reads
InputPrompt == [kind |-> "prompt", text |-> "Voc^: "]

\* line 166: input("Voc^: ").strip(), for every line the console can deliver
UserInputs == { strip(line) : line \in Inputs }

\* line 168: the inputs that end the loop
ExitInputs == { u \in UserInputs : lower(u) \in ExitKeywords }

\* main, lines 166-175: one line read, the exit test and the empty test
ReadInput ==
    /\ pc = "input"
    /\ \E stripped \in UserInputs :
         IF stripped \in ExitInputs
         THEN /\ usage_reports' = Append(usage_reports, print_usage(token_counter))
              /\ stdout_last' = [kind |-> "usage", text |-> print_usage(token_counter)]
              /\ pc' = "terminated"
              /\ UNCHANGED user_input
         ELSE IF stripped = ""
         THEN /\ stdout_last' = [kind |-> "reprompt",
                                 text |-> "Por favor, digite uma pergunta v@lida."]
              /\ pc' = "input"
              /\ UNCHANGED <<usage_reports, user_input>>
         ELSE /\ Len(completions) < MaxCompletions
              /\ user_input' = stripped
              /\ stdout_last' = InputPrompt
              /\ pc' = "process_request"
              /\ UNCHANGED usage_reports
    /\ UNCHANGED <<env, token_counter, intent, text_to_analyze, results, summary,
                   response, calls, completions, loop_entered>>

\* main, line 166 with lines 183-185: input() raises (EOFError at end of input)
ReadInputRaises ==
    /\ pc = "input"
    /\ stdout_last' = InitErrorPrint("EOF when reading a line")
    /\ pc' = "terminated"
    /\ UNCHANGED <<env, token_counter, completions, usage_reports, loop_entered>>
    /\ UNCHANGED TurnLocals

\* process_request, lines 77-91 and 127: the branch, and the sentiment
\* branch up to the length test
Route ==
    /\ pc = "process_request"
    /\ intent' = route(user_input)
    /\ IF intent' = "SentimentAnalysis"
       THEN /\ text_to_analyze' = TextToAnalyze(user_input)
            /\ IF TooShort(text_to_analyze')
               THEN response' = AskForTextMsg /\ pc' = "print"
               ELSE pc' = "analyze_sentiment" /\ UNCHANGED response
       ELSE /\ pc' = IF intent' = "NewsSearch" THEN "search_news" ELSE "general_llm"
            /\ UNCHANGED <<text_to_analyze, response>>
    /\ UNCHANGED <<env, token_counter, user_input, results, summary, calls,
                   completions, stdout_last, usage_reports, loop_entered>>

Call(to, arg, ok, ret) == [to |-> to, arg |-> arg, ok |-> ok, ret |-> ret]

\* process_request, lines 92-95, with search_news, lines 31-55
SearchNews ==
    /\ pc = "search_news"
    /\ IF KeyMissing(env)
       THEN results' = NoKeyMsg /\ UNCHANGED calls
       ELSE \E out \in SearchOutcomes :
              /\ calls' = Append(calls, Call("search", Prompt("query", user_input),
                                             out.ok, out.ret))
              /\ results' = search_news(out)
    /\ IF startswith(results', "ERRO")
       THEN response' = results' /\ pc' = "print"
       ELSE pc' = "summary_llm" /\ UNCHANGED response
    /\ UNCHANGED <<env, token_counter, user_input, intent, text_to_analyze, summary,
                   completions, stdout_last, usage_reports, loop_entered>>

\* llm.invoke(prompt, config={"callbacks": [token_counter]}): the call is
\* logged; on success on_llm_end observes the response
Invoke(prompt, out) ==
    /\ calls' = Append(calls, Call("llm", prompt, out.ok, out.content))
    /\ IF out.ok
       THEN /\ token_counter' = on_llm_end(token_counter, out.llm_output)
            /\ completions' = Append(completions, out.llm_output)
       ELSE UNCHANGED <<token_counter, completions>>

\* process_request, lines 97-107 with the handler of lines 124-125
SummaryLlm ==
    /\ pc = "summary_llm"
    /\ \E out \in LlmOutcomes :
         /\ Invoke(Prompt("summary", results), out)
         /\ IF out.ok
            THEN summary' = out.content /\ pc' = "sentiment_llm" /\ UNCHANGED response
            ELSE /\ response' = ProcessingError(out.err)
                 /\ pc' = "print"
                 /\ UNCHANGED summary
    /\ UNCHANGED <<env, user_input, intent, text_to_analyze, results, stdout_last,
                   usage_reports, loop_entered>>

\* process_request, lines 109-123 with the handler of lines 124-125
SentimentLlm ==
    /\ pc = "sentiment_llm"
    /\ \E out \in LlmOutcomes :
         /\ Invoke(NewsSentimentPrompt(results, summary), out)
         /\ response' = IF out.ok THEN NewsResponse(summary, strip(out.content))
                        ELSE ProcessingError(out.err)
    /\ pc' = "print"
    /\ UNCHANGED <<env, user_input, intent, text_to_analyze, results, summary,
                   stdout_last, usage_reports, loop_entered>>

\* analyze_sentiment, lines 57-74, called at lines 88-89
AnalyzeSentiment ==
    /\ pc = "analyze_sentiment"
    /\ \E out \in LlmOutcomes :
         /\ Invoke(Prompt("sentiment", text_to_analyze), out)
         /\ response' = IF out.ok THEN strip(out.content)
                        ELSE "ERRO ao analisar sentimento: " \o out.err
    /\ pc' = "print"
    /\ UNCHANGED <<env, user_input, intent, text_to_analyze, results, summary,
                   stdout_last, usage_reports, loop_entered>>

\* process_request, lines 128-138
GeneralLlm ==
    /\ pc = "general_llm"
    /\ \E out \in LlmOutcomes :
         /\ Invoke(Prompt("general", user_input), out)
         /\ response' = IF out.ok THEN out.content ELSE "ERRO: " \o out.err
    /\ pc' = "print"
    /\ UNCHANGED <<env, user_input, intent, text_to_analyze, results, summary,
                   stdout_last, usage_reports, loop_entered>>

\* main, line 179: the response is printed
PrintResponse ==
    /\ pc = "print"
    /\ stdout_last' = [kind |-> "response", text |-> "\nAssistente: " \o response \o "\n"]
    /\ pc' = "input"
    /\ ResetTurn
    /\ UNCHANGED <<env, token_counter, completions, usage_reports, loop_entered>>

\* the handler of lines 180-181 followed by a break
PrintResponseRaisesBreaks ==
    /\ pc = "print"
    /\ stdout_last' = [kind |-> "turn_error",
                       text |-> "\nERRO ao processar pergunta: "
                                \o "'charmap' codec can't encode character" \o "\n"]
    /\ pc' = "terminated"
    /\ ResetTurn
    /\ UNCHANGED <<env, token_counter, completions, usage_reports, loop_entered>>

\* main, lines 179-181: the print of the response raises (the console cannot
\* encode it) and the handler of the turn prints the error
PrintResponseRaises ==
    /\ pc = "print"
    /\ stdout_last' = [kind |-> "turn_error",
                       text |-> "\nERRO ao processar pergunta: "
                                \o "'charmap' codec can't encode character" \o "\n"]
    /\ pc' = "input"
    /\ ResetTurn
    /\ UNCHANGED <<env, token_counter, completions, usage_reports, loop_entered>>

Next ==
    \/ Start
    \/ ReadInput
    \/ ReadInputRaises
    \/ Route
    \/ SearchNews
    \/ SummaryLlm
    \/ SentimentLlm
    \/ AnalyzeSentiment
    \/ GeneralLlm
    \/ PrintResponse
    \/ PrintResponseRaises

Spec == Init /\ [][Next]_vars

(***************************************************************************)
(* Properties.                                                             *)
(***************************************************************************)
CallsTo(log, to) == { i \in 1..Len(log) : log[i].to = to }
LlmCalls(log) == Cardinality(CallsTo(log, "llm"))
SearchCalls(log) == Cardinality(CallsTo(log, "search"))
Templates(log) == [i \in 1..Len(log) |-> log[i].arg.template]

SearchReturnedNothing ==
    \E i \in CallsTo(calls, "search") : calls[i].ok /\ calls[i].ret = <<>>

Dispatching ==
    {"process_request", "search_news", "summary_llm", "sentiment_llm",
     "analyze_sentiment", "general_llm", "print"}

\* C1: on the NewsSearch path, once the search has returned zero results no
\* LLM call is made in that turn, and the response handed back to the loop
\* is exactly the no-news message.
C1_NoNewsNoLlm ==
    (intent = "NewsSearch" /\ SearchReturnedNothing)
        => /\ LlmCalls(calls) = 0
           /\ (pc = "print" => response = "Nenhuma not|cia encontrada para este t*pico.")

\* C2: the branch taken is SentimentAnalysis when the lowercased input holds a
\* sentiment keyword, else NewsSearch when it holds a news keyword, else
\* GeneralQuery; the turn stays on that one branch, and an input holding a
\* sentiment keyword never reaches the search collaborator.
C2_RoutingPriority ==
    intent # "none" =>
        LET l == lower(user_input)
            S == \E k \in {"analise", "analisa", "sentimento"} : Contains(l, k)
            N == \E k \in {"busque", "buscar", "not|cias", "noticias", "procure"} :
                    Contains(l, k)
        IN  /\ intent = IF S THEN "SentimentAnalysis"
                        ELSE IF N THEN "NewsSearch" ELSE "GeneralQuery"
            /\ S => SearchCalls(calls) = 0
            /\ intent = "SentimentAnalysis" =>
                  /\ pc \in {"analyze_sentiment", "print"}
                  /\ \A i \in 1..Len(calls) : calls[i].arg.template = "sentiment"
            /\ intent = "NewsSearch" =>
                  /\ pc \in {"search_news", "summary_llm", "sentiment_llm", "print"}
                  /\ \A i \in 1..Len(calls) :
                        calls[i].arg.template \in {"query", "summary", "news_sentiment"}
            /\ intent = "GeneralQuery" =>
                  /\ pc \in {"general_llm", "print"}
                  /\ \A i \in 1..Len(calls) : calls[i].arg.template = "general"

\* an input with a sentiment keyword and a news keyword, handled as sentiment
C2_Witness ==
    /\ pc = "print"
    /\ intent = "SentimentAnalysis"
    /\ Contains(lower(user_input), "not|cias")
    /\ Contains(lower(user_input), "analisa")

\* C3: when process_request returns on the SentimentAnalysis path, a stripped
\* text shorter than 20 characters gave the fixed message with no collaborator
\* call and the accumulator as it was when the handler started; a stripped
\* text of 20 characters or more gave exactly one LLM call.
C3_ShortTextNoLlm ==
    [][ (pc # "print" /\ pc' = "print" /\ intent' = "SentimentAnalysis") =>
            IF Len(text_to_analyze') < 20
            THEN /\ pc = "process_request"
                 /\ response' = AskForTextMsg
                 /\ calls' = <<>>
                 /\ token_counter' = token_counter
                 /\ completions' = completions
            ELSE /\ LlmCalls(calls') = 1
                 /\ Len(calls') = 1 ]_vars

\* a stripped text of 19 characters turned away without a call
C3_Witness ==
    /\ pc = "print"
    /\ intent = "SentimentAnalysis"
    /\ Len(text_to_analyze) = 19
    /\ response = AskForTextMsg
    /\ calls = <<>>

\* C4: on the NewsSearch path a failed call is the last call of the turn, no
\* collaborator is called twice for the same step, and the response starts
\* with ERRO and holds neither the formatted results nor the summary.
C4_NewsFailure ==
    intent = "NewsSearch" =>
        /\ \A i \in 1..Len(calls) : ~calls[i].ok => i = Len(calls)
        /\ \A i, j \in 1..Len(calls) :
              calls[i].arg.template = calls[j].arg.template => i = j
        /\ (pc = "print" /\ \E i \in 1..Len(calls) : ~calls[i].ok) =>
              /\ startswith(response, "ERRO")
              /\ summary # "" => ~Contains(response, summary)
              /\ (results # "" /\ ~startswith(results, "ERRO")) =>
                    ~Contains(response, results)

\* the second LLM call failed after the first one produced a summary
C4_Witness ==
    /\ pc = "print"
    /\ intent = "NewsSearch"
    /\ Len(calls) = 3
    /\ calls[2].ok /\ summary = calls[2].ret /\ summary # ""
    /\ ~calls[3].ok

\* C5: no step of a dispatch terminates the loop, and the step that ends the
\* dispatch, whether the response was printed or the turn's failure was,
\* goes back to awaiting input.
C5_LoopSurvivesTurn ==
    [][ /\ pc \in Dispatching => pc' # "terminated"
        /\ pc = "print" =>
              /\ pc' = "input"
              /\ stdout_last'.kind \in {"response", "turn_error"} ]_vars

\* a turn's failure was printed and the loop awaits input
C5_Witness ==
    /\ pc = "input"
    /\ stdout_last.kind = "turn_error"

RECURSIVE SumReported(_, _)
SumReported(seq, field) ==
    IF seq = <<>> THEN 0
    ELSE (IF "token_usage" \in DOMAIN Head(seq)
             /\ field \in DOMAIN Head(seq).token_usage
          THEN Head(seq).token_usage[field] ELSE 0)
         + SumReported(Tail(seq), field)

\* C6: each field of the accumulator is the sum of what the observed
\* completions reported for it, a completion without usage metadata counting
\* zero, and the usage block printed shows these sums.
C6_CounterIsSum ==
    token_counter # NoCounter =>
        /\ token_counter.prompt_tokens = SumReported(completions, "prompt_tokens")
        /\ token_counter.completion_tokens = SumReported(completions, "completion_tokens")
        /\ token_counter.total_tokens = SumReported(completions, "total_tokens")
        /\ completions = <<>> => token_counter = TokenCounterInit
        /\ \A i \in 1..Len(usage_reports) :
              usage_reports[i] = UsageBlock(SumReported(completions, "prompt_tokens"),
                                            SumReported(completions, "completion_tokens"),
                                            SumReported(completions, "total_tokens"))

\* the report printed after completions with and without usage metadata
C6_Witness ==
    /\ pc = "terminated"
    /\ Len(usage_reports) = 1
    /\ \E i \in 1..Len(completions) : ~Truthy(completions[i])
    /\ \E i \in 1..Len(completions) : "token_usage" \in DOMAIN completions[i]
    /\ token_counter.total_tokens > 0

\* C7: from its construction on, no step lowers a field of the accumulator.
C7_Monotonic ==
    [][ token_counter # NoCounter =>
            /\ token_counter' # NoCounter
            /\ token_counter'.prompt_tokens >= token_counter.prompt_tokens
            /\ token_counter'.completion_tokens >= token_counter.completion_tokens
            /\ token_counter'.total_tokens >= token_counter.total_tokens ]_vars

\* usage was counted, and a later completion reported less than an earlier one
C7_Witness ==
    /\ Len(completions) >= 2
    /\ SumReported(<<completions[1]>>, "prompt_tokens") >
          SumReported(<<completions[2]>>, "prompt_tokens")
    /\ token_counter.prompt_tokens > 0

\* C8: with the search credential absent, the search step of a turn returns
\* the configuration error with no collaborator call and the accumulator
\* untouched, and the turn ends back at awaiting input; the absence does not
\* stop the loop from starting.
C8_NoSearchKey ==
    [][ ~env.TAVILY_API_KEY =>
            /\ (pc = "start" /\ env.MISTRAL_API_KEY) => pc' = "input"
            /\ pc = "search_news" =>
                  /\ pc' = "print"
                  /\ response' = "ERRO: TAVILY_API_KEY n~o encontrada no arquivo .env"
                  /\ calls' = <<>>
                  /\ token_counter' = token_counter
            /\ pc = "print" => pc' = "input" ]_vars

\* the configuration error was printed and the loop awaits the next input
C8_Witness ==
    /\ pc = "input"
    /\ ~env.TAVILY_API_KEY
    /\ stdout_last.kind = "response"
    /\ Contains(stdout_last.text, NoKeyMsg)

\* C9: in any turn at most two LLM calls and at most one search call are
\* made, the search only on the NewsSearch path and first; the calls of the
\* news path follow the order search, summary, sentiment, each after the
\* previous one succeeded; a news turn whose calls all succeeded made exactly
\* two LLM calls, the second on the text the first returned.
C9_CallOrder ==
    /\ LlmCalls(calls) <= 2
    /\ SearchCalls(calls) <= 1
    /\ SearchCalls(calls) > 0 => intent = "NewsSearch"
    /\ \A i \in 2..Len(calls) : calls[i - 1].ok
    /\ (intent = "NewsSearch" /\ env.TAVILY_API_KEY) =>
          Templates(calls) =
              SubSeq(<<"query", "summary", "news_sentiment">>, 1, Len(calls))
    /\ (intent = "NewsSearch" /\ pc = "print" /\ calls # <<>>
        /\ \A i \in 1..Len(calls) : calls[i].ok) =>
          /\ Len(calls) = 3
          /\ LlmCalls(calls) = 2
          /\ calls[3].arg.text = calls[2].ret
          /\ calls[2].arg.text = results

\* a news turn whose three calls succeeded, with a summary unlike the results
C9_Witness ==
    /\ pc = "print"
    /\ intent = "NewsSearch"
    /\ Len(calls) = 3
    /\ \A i \in 1..3 : calls[i].ok
    /\ calls[2].ret # results

\* C10: once the loop was entered, the process is terminated only after an
\* exit keyword, with the usage report printed exactly once as the last
\* thing written.
C10_ExitOnlyWithReport ==
    (loop_entered /\ pc = "terminated")
        => /\ Len(usage_reports) = 1
           /\ stdout_last.kind = "usage"

====
